---- MODULE Spec2Model ----
(***************************************************************************)
(* Model of qlbm_mcgill/error_mitigator.py: the ErrorMitigator pipeline    *)
(* (mitigate, rem, ibu, pec, equalize, _combine_pec_results), the          *)
(* in-memory PECTable and the on-disk REMTable.                            *)
(*                                                                         *)
(* Python numbers (int and float) are modelled as exact rationals <<n, d>> *)
(* in lowest terms with d > 0, so that 50 and 50.0 are the same value as   *)
(* they are for Python's == and <.  A histogram (dict bitstring -> count)  *)
(* is a function from a set of bitstrings to rationals; a bitstring is a   *)
(* function 1..K -> {0,1}.  A list is a sequence.                          *)
(***************************************************************************)
EXTENDS Integers, Sequences, FiniteSets, TLC

VARIABLES
    flags,       \* the five booleans set by ErrorMitigator.__init__
    pec_table,   \* PECTable.representations: key -> representation
    rem_table,   \* the files rem-table/<backend>_<r>x<c>.json: key -> job id
    hist,        \* history counters: builder runs per key, experiments, writes
    call,        \* the last call made on the mitigator: operation and arguments
    ret,         \* what that call returned (or that it raised)
    log,         \* the stages that call invoked, in order, with inputs and outputs
    heap,        \* the dict objects handed to and built by the last call, by identity
    threads,     \* the ReadoutError constructions in flight: position and result
    twin         \* what the last call did on the mitigator with the other zne flag

vars == <<flags, pec_table, rem_table, hist, call, ret, log, heap, threads, twin>>

----------------------------------------------------------------------------
(* Bounds of the model *)

\* number of measured qubits, len(StepCircuit(lattice, 0).grid_qubits)
K == 2
\* longest list of circuits / histograms handed to one call
MaxBatch == 2
\* most sample histograms handed to _combine_pec_results
MaxSamples == 2
\* most calls made on one mitigator
MaxCalls == 2

\* lattice.dims
Rows == 2
Cols == 2

----------------------------------------------------------------------------
(* Numbers *)

RECURSIVE Gcd(_, _)
Gcd(a, b) == IF b = 0 THEN a ELSE Gcd(b, a % b)

Abs(n) == IF n < 0 THEN -n ELSE n

\* the rational n/d in lowest terms, d # 0
RNorm(n, d) ==
    LET s == IF d < 0 THEN -1 ELSE 1
        g == Gcd(Abs(n), Abs(d))
    IN  <<(s * n) \div g, (s * d) \div g>>

Q(n) == <<n, 1>>
Zero == Q(0)
Half == <<1, 2>>

RAdd(x, y) == RNorm(x[1] * y[2] + y[1] * x[2], x[2] * y[2])
RMul(x, y) == RNorm(x[1] * y[1], x[2] * y[2])
RDiv(x, y) == RNorm(x[1] * y[2], x[2] * y[1])
RLess(x, y) == x[1] * y[2] < y[1] * x[2]

\* Python's int(x): truncation toward zero
RInt(x) == IF x[1] >= 0 THEN x[1] \div x[2] ELSE -((-x[1]) \div x[2])

RECURSIVE Pow2(_)
Pow2(n) == IF n <= 0 THEN 1 ELSE 2 * Pow2(n - 1)

----------------------------------------------------------------------------
(* Bitstrings and histograms *)

BitStrings == [1..K -> {0, 1}]

RECURSIVE BitVal(_, _)
\* the number a bitstring spells, most significant bit first
BitVal(b, i) == IF i = 0 THEN 0 ELSE b[i] + 2 * BitVal(b, i - 1)

Val(b) == BitVal(b, K)

\* the bitstring that spells n
Bits(n) == CHOOSE b \in BitStrings : Val(b) = n

Keys(h) == DOMAIN h

RECURSIVE SumOver(_, _)
\* sum(h.values()) restricted to the keys in S
SumOver(h, S) ==
    IF S = {} THEN Zero
    ELSE LET b == CHOOSE x \in S : TRUE
         IN  RAdd(h[b], SumOver(h, S \ {b}))

Total(h) == SumOver(h, Keys(h))

RECURSIVE SortedVals(_, _)
\* sorted(list(h.values())), ascending, for the keys in S
SortedVals(h, S) ==
    IF S = {} THEN <<>>
    ELSE LET m == CHOOSE x \in S : \A y \in S : ~RLess(h[y], h[x])
         IN  <<h[m]>> \o SortedVals(h, S \ {m})

EmptyHist == [b \in {} |-> Zero]

\* what a call hands back: a value, or an exception that reached the caller
Ok(v) == [ok |-> TRUE, val |-> v]
Raised == [ok |-> FALSE, val |-> <<>>]

----------------------------------------------------------------------------
(* ErrorMitigator.equalize *)

\* shots / (dims[0] * dims[1] * 0.5)
EqualizedValue(shots) == RDiv(Q(shots), RMul(Q(Rows * Cols), Half))

\* sorted(list(count.values()))[2 ** (len(measured_qubits) - 1)] is in range
CutoffInRange(count) == Pow2(K - 1) + 1 <= Len(SortedVals(count, Keys(count)))

\* the cutoff taken one rank lower
CutoffOneRankLower(count) == SortedVals(count, Keys(count))[Pow2(K - 1)]

Cutoff(count) == SortedVals(count, Keys(count))[Pow2(K - 1) + 1]

\* the loop body with the comparison the wrong way round
EqualizeOneInverted(count, shots) ==
    LET cutoff == Cutoff(count)
    IN  [key \in Keys(count) |->
            IF RLess(cutoff, count[key]) THEN Zero ELSE EqualizedValue(shots)]

\* the body of the loop over counts: one new dict per histogram
EqualizeOne(count, shots) ==
    LET cutoff == Cutoff(count)
    IN  [key \in Keys(count) |->
            IF RLess(count[key], cutoff) THEN Zero ELSE EqualizedValue(shots)]

\* an equalize that leaves a histogram too short to have a cutoff as it is
EqualizeSkipsSparse(counts, shots) ==
    Ok([i \in 1..Len(counts) |->
           IF CutoffInRange(counts[i]) THEN EqualizeOne(counts[i], shots) ELSE counts[i]])

\* equalize(counts, shots): IndexError on the first histogram too short to
\* have a cutoff, which ends the whole call
Equalize(counts, shots) ==
    IF \E i \in 1..Len(counts) : ~CutoffInRange(counts[i])
    THEN Raised
    ELSE Ok([i \in 1..Len(counts) |-> EqualizeOne(counts[i], shots)])

----------------------------------------------------------------------------
(* ErrorMitigator._combine_pec_results *)

\* all_bitstrings: the union of the samples' key sets
AllBitstrings(all_counts) == UNION {Keys(all_counts[i]) : i \in 1..Len(all_counts)}

\* counts.get(bitstring, 0)
Get(counts, bitstring) == IF bitstring \in Keys(counts) THEN counts[bitstring] ELSE Zero

RECURSIVE Accumulate(_, _, _)
\* combined[bitstring] after the first n samples were added, each / total_weight
Accumulate(all_counts, bitstring, n) ==
    IF n = 0 THEN Zero
    ELSE RAdd(Accumulate(all_counts, bitstring, n - 1),
              RDiv(Get(all_counts[n], bitstring), Q(Len(all_counts))))

\* the combination with the scaling applied to the sums, not to the means
CombineScalesSums(all_counts, representation, target_shots) ==
    IF all_counts = <<>> THEN EmptyHist
    ELSE LET combined == [b \in AllBitstrings(all_counts) |->
                             Accumulate(all_counts, b, Len(all_counts))]
             total_counts == Total(combined)
         IN  IF RLess(Zero, total_counts)
             THEN LET scaling_factor == RDiv(Q(target_shots), total_counts)
                  IN  [bs \in Keys(combined) |->
                          Q(RInt(RMul(RMul(combined[bs], Q(Len(all_counts))),
                                      scaling_factor)))]
             ELSE combined

CombinePecResults(all_counts, representation, target_shots) ==
    IF all_counts = <<>> THEN EmptyHist
    ELSE LET combined == [b \in AllBitstrings(all_counts) |->
                             Accumulate(all_counts, b, Len(all_counts))]
             total_counts == Total(combined)
         IN  IF RLess(Zero, total_counts)
             THEN LET scaling_factor == RDiv(Q(target_shots), total_counts)
                  IN  [bs \in Keys(combined) |->
                          Q(RInt(RMul(combined[bs], scaling_factor)))]
             ELSE combined

----------------------------------------------------------------------------
(* Circuits and PECTable *)

\* a circuit is the list of its gates; a gate has a name and the qubit it is on
Gate(name, q) == [name |-> name, q |-> q]

\* circuit.depth(): the longest chain of gates on one qubit
Depth(circuit) ==
    LET on(q) == Cardinality({i \in 1..Len(circuit) : circuit[i].q = q})
        qs == {circuit[i].q : i \in 1..Len(circuit)}
    IN  IF qs = {} THEN 0 ELSE CHOOSE d \in {on(q) : q \in qs} : \A q \in qs : on(q) <= d

RECURSIVE FirstSeen(_)
\* the gate names of a circuit in order of first appearance
FirstSeen(circuit) ==
    IF circuit = <<>> THEN <<>>
    ELSE LET front == FirstSeen(SubSeq(circuit, 1, Len(circuit) - 1))
             name == circuit[Len(circuit)].name
         IN  IF \E i \in 1..Len(front) : front[i] = name THEN front ELSE Append(front, name)

RECURSIVE SortByCountDesc(_)
\* Python's stable sorted(items, key=count, reverse=True)
SortByCountDesc(items) ==
    IF items = <<>> THEN <<>>
    ELSE LET front == SortByCountDesc(SubSeq(items, 1, Len(items) - 1))
             item == items[Len(items)]
             pos == Cardinality({i \in 1..Len(front) : front[i][2] >= item[2]})
         IN  SubSeq(front, 1, pos) \o <<item>> \o SubSeq(front, pos + 1, Len(front))

\* circuit.count_ops(): (name, count) pairs, highest count first
CountOps(circuit) ==
    LET names == FirstSeen(circuit)
        count(name) == Cardinality({i \in 1..Len(circuit) : circuit[i].name = name})
    IN  SortByCountDesc([i \in 1..Len(names) |-> <<names[i], count(names[i])>>])

NameCode(name) == IF name = "h" THEN 1 ELSE IF name = "x" THEN 2 ELSE 3

RECURSIVE HashStr(_)
\* hash(str(gate_counts)): a number that depends on the printed pairs and
\* their order only; distinct printed dicts get distinct numbers here
HashStr(ops) ==
    IF ops = <<>> THEN 0
    ELSE HashStr(SubSeq(ops, 1, Len(ops) - 1)) * 64
         + NameCode(ops[Len(ops)][1]) * 16 + ops[Len(ops)][2]

\* PECTable.get_key
GetKey(backend_name, circuit) ==
    <<backend_name, Depth(circuit), HashStr(CountOps(circuit))>>

\* PECTable.store
Store(table, key, representations) ==
    [k \in DOMAIN table \cup {key} |-> IF k = key THEN representations ELSE table[k]]

\* a load that never finds anything
LoadAlwaysMisses(table, key) == [found |-> FALSE, val |-> <<>>]

\* PECTable.load: found is FALSE for the None of dict.get
Load(table, key) ==
    IF key \in DOMAIN table THEN [found |-> TRUE, val |-> table[key]]
    ELSE [found |-> FALSE, val |-> <<>>]

\* PECTable.__init__
EmptyTable == [k \in {} |-> <<>>]

BackendName == "ibm_brisbane"

\* what pec.represent_operations_in_circuit_with_local_depolarizing_noise
\* returns when it does not raise: one entry per operation of the circuit
Represent(circuit) == [i \in 1..Len(circuit) |-> [ideal |-> circuit[i]]]

----------------------------------------------------------------------------
(* The execution backend *)

\* The histogram a Sampler job of s shots returns.  The backend decides its
\* shape (kind); its counts sum to s.
\*   "one":  every shot gave the same bitstring
\*   "half": only the first half of the bitstrings were observed
\*   "all":  every bitstring was observed
MakeHist(kind, s) ==
    LET n == IF kind = "all" /\ s >= Pow2(K) THEN Pow2(K)
             ELSE IF kind # "one" /\ s >= Pow2(K - 1) THEN Pow2(K - 1)
             ELSE 1
    IN  [b \in {x \in BitStrings : Val(x) < n} |->
            IF Val(b) = 0 THEN Q(s - (n - 1)) ELSE Q(1)]

\* sampler.run([circuit], shots=s) ... get_counts(): the job's outcome is the
\* backend's (job.ok = FALSE: the job raised)
RunCircuit(job, s) == IF job.ok THEN Ok(MakeHist(job.kind, s)) ELSE Raised

JobOutcomes(kinds) == {[ok |-> TRUE, kind |-> k] : k \in kinds} \cup {[ok |-> FALSE, kind |-> "one"]}

----------------------------------------------------------------------------
(* ErrorMitigator.generate_pec_representations *)

BuildCount(builds, key) == IF key \in DOMAIN builds THEN builds[key] ELSE 0

\* history: one more run of the representation builder for key
CountBuild(builds, key) ==
    [k \in DOMAIN builds \cup {key} |-> BuildCount(builds, k) + (IF k = key THEN 1 ELSE 0)]

RECURSIVE GenLoopSkipsFailed(_, _, _, _, _)
\* the loop with an except branch that appends nothing
GenLoopSkipsFailed(circuits, builder, table, builds, n) ==
    IF n = 0 THEN [table |-> table, builds |-> builds, representations |-> <<>>]
    ELSE LET s == GenLoopSkipsFailed(circuits, builder, table, builds, n - 1)
             circuit == circuits[n]
             key == GetKey(BackendName, circuit)
             cached_repr == Load(s.table, key)
         IN  IF cached_repr.found
             THEN [s EXCEPT !.representations = Append(@, cached_repr.val)]
             ELSE IF builder[n] = "ok"
             THEN [table |-> Store(s.table, key, Represent(circuit)),
                   builds |-> CountBuild(s.builds, key),
                   representations |-> Append(s.representations, Represent(circuit))]
             ELSE [s EXCEPT !.builds = CountBuild(@, key)]

RECURSIVE GenLoop(_, _, _, _, _)
\* the loop over circuits after its first n iterations; builder[i] is what
\* the representation builder does if it is run for circuit i
GenLoop(circuits, builder, table, builds, n) ==
    IF n = 0 THEN [table |-> table, builds |-> builds, representations |-> <<>>]
    ELSE LET s == GenLoop(circuits, builder, table, builds, n - 1)
             circuit == circuits[n]
             key == GetKey(BackendName, circuit)
             cached_repr == Load(s.table, key)
         IN  IF cached_repr.found
             THEN [s EXCEPT !.representations = Append(@, cached_repr.val)]
             ELSE IF builder[n] = "ok"
             THEN [table |-> Store(s.table, key, Represent(circuit)),
                   builds |-> CountBuild(s.builds, key),
                   representations |-> Append(s.representations, Represent(circuit))]
             ELSE [table |-> s.table,
                   builds |-> CountBuild(s.builds, key),
                   representations |-> Append(s.representations, <<>>)]

\* max([circuit.num_qubits for circuit in circuits]) raises on an empty list,
\* before the loop and outside any try
GeneratePecRepresentations(circuits, builder, table, builds) ==
    IF circuits = <<>>
    THEN [ok |-> FALSE, table |-> table, builds |-> builds, representations |-> <<>>]
    ELSE LET s == GenLoop(circuits, builder, table, builds, Len(circuits))
         IN  [ok |-> TRUE, table |-> s.table, builds |-> s.builds,
              representations |-> s.representations]

----------------------------------------------------------------------------
(* ErrorMitigator.pec *)

Max(a, b) == IF a >= b THEN a ELSE b
Min(a, b) == IF a <= b THEN a ELSE b

\* num_samples handed to pec.sample_circuits
RequestedSamples(num_samples, shots) == Min(num_samples, shots \div 10)

\* every sampled circuit run with the full shot count
ShotsNotDivided(shots, n) == shots

\* shots_per_circuit
ShotsPerCircuit(shots, n) == Max(1, shots \div n)

\* One iteration of the loop over (circuit, representation).  o is what the
\* library and the backend do in it: o.samp is the number of circuits
\* pec.sample_circuits returns (-1: it raises), o.exec the jobs of the sampled
\* circuits, o.raw and o.raw2 the first and second job of the original circuit.
PecOne(circuit, representation, shots, num_samples, o) ==
    LET original(job, path) ==
            [ok |-> job.ok, val |-> RunCircuit(job, shots).val, path |-> path,
             requested |-> RequestedSamples(num_samples, shots), sampled |-> Max(o.samp, 0),
             shots_per_circuit |-> IF o.samp > 0 THEN ShotsPerCircuit(shots, o.samp) ELSE 0]
    IN  IF representation = <<>> THEN original(o.raw, "norep")
        ELSE IF o.samp < 0 THEN original(o.raw, "failed")
        ELSE IF o.samp = 0
        THEN IF o.raw.ok THEN original(o.raw, "nosamples") ELSE original(o.raw2, "failed")
        ELSE IF \E j \in 1..o.samp : ~o.exec[j].ok THEN original(o.raw, "failed")
        ELSE LET shots_per_circuit == ShotsPerCircuit(shots, o.samp)
                 all_counts == [j \in 1..o.samp |->
                                   RunCircuit(o.exec[j], shots_per_circuit).val]
             IN  [ok |-> TRUE,
                  val |-> CombinePecResults(all_counts, representation, shots),
                  path |-> "combined",
                  requested |-> RequestedSamples(num_samples, shots),
                  sampled |-> o.samp,
                  shots_per_circuit |-> shots_per_circuit]

\* f"{'-'.join(techniques)}-collisionless-{dims[0]}x{dims[1]}-ibm-qpu"
Label(techniques) == [techniques |-> techniques, dims |-> <<Rows, Cols>>]
NoLabel == Label(<<>>)

\* one stage invoked during a call: its input, its output, whether it returned
Stage(stage, in, out, ok) == [stage |-> stage, in |-> in, out |-> out, ok |-> ok]

\* index of the first circuit whose iteration raised (0: none did)
FirstRaise(each) ==
    IF \A i \in 1..Len(each) : each[i].ok THEN 0
    ELSE CHOOSE i \in 1..Len(each) : ~each[i].ok /\ \A j \in 1..(i - 1) : each[j].ok

\* pec(circuits, shots, num_samples): builder and runs are what the library
\* and the backend do during the call
Pec(circuits, shots, num_samples, equalization, builder, runs, table, builds) ==
    LET Return(gen, r, label, stages) ==
            [ret |-> r, label |-> label,
             log |-> <<Stage("generate", circuits, gen.representations, gen.ok)>> \o stages,
             table |-> gen.table, builds |-> gen.builds]
        Equalized(gen, each, mitigated_counts, eq) ==
            Return(gen, eq, IF eq.ok THEN Label(<<"pec">>) ELSE NoLabel,
                   <<Stage("pec", circuits, each, TRUE),
                     Stage("equalize", mitigated_counts, eq.val, eq.ok)>>)
        Collect(gen, each, raised, mitigated_counts) ==
            IF raised > 0
            THEN Return(gen, Raised, NoLabel,
                        <<Stage("pec", circuits, SubSeq(each, 1, raised), FALSE)>>)
            ELSE IF equalization
            THEN Equalized(gen, each, mitigated_counts, Equalize(mitigated_counts, shots))
            ELSE Return(gen, Ok(mitigated_counts), Label(<<"pec">>),
                        <<Stage("pec", circuits, each, TRUE)>>)
        Loop(gen, each) ==
            Collect(gen, each, FirstRaise(each), [i \in 1..Len(circuits) |-> each[i].val])
        Run(gen) ==
            IF ~gen.ok THEN Return(gen, Raised, NoLabel, <<>>)
            ELSE Loop(gen, [i \in 1..Len(circuits) |->
                               PecOne(circuits[i], gen.representations[i], shots,
                                      num_samples, runs[i])])
    IN  Run(GeneratePecRepresentations(circuits, builder, table, builds))

----------------------------------------------------------------------------
(* REMTable and ErrorMitigator.ReadoutError *)

\* no file of that name in rem-table/
NoFile == -1

\* f"rem-table/{backend.name}_{dims[0]}x{dims[1]}.json"
FileKey(backend_name, dims) == <<backend_name, dims[1], dims[2]>>

\* REMTable.enter: dump the job's result and id into the file, overwriting it
Enter(files, dims, job_id) == [files EXCEPT ![FileKey(BackendName, dims)] = job_id]

\* REMTable.load: the result stored in the file
TableLoad(files, dims) == files[FileKey(BackendName, dims)]

\* a constructor that never looks for the file
ReadoutErrorAlwaysRuns(use_table, files, runs, writes) ==
    [result |-> runs + 1, files |-> Enter(files, <<Rows, Cols>>, runs + 1),
     runs |-> runs + 1, writes |-> writes + 1, ran |-> TRUE]

\* ReadoutError.__init__: runs counts the calibration experiments run so far
\* (the next job's id), writes the files written
ReadoutError(use_table, files, runs, writes) ==
    LET dims == <<Rows, Cols>>
    IN  IF use_table /\ files[FileKey(BackendName, dims)] # NoFile
        THEN [result |-> TableLoad(files, dims), files |-> files,
              runs |-> runs, writes |-> writes, ran |-> FALSE]
        ELSE [result |-> runs + 1, files |-> Enter(files, dims, runs + 1),
              runs |-> runs + 1, writes |-> writes + 1, ran |-> TRUE]

----------------------------------------------------------------------------
(* ErrorMitigator.rem and ErrorMitigator.ibu *)

\* The probability distributions the external libraries hand back
\* (nearest_probability_distribution().binary_probabilities() of the readout
\* mitigator, guess_as_dict() of the unfolder): which one is the library's.
Distribution(kind) ==
    IF kind = "uniform" THEN [b \in BitStrings |-> <<1, Pow2(K)>>]
    ELSE IF kind = "point" THEN [b \in {Bits(0)} |-> Q(1)]
    ELSE [b \in BitStrings |-> IF Val(b) = 0 THEN Q(1) ELSE Zero]

\* {label: int(prob * shots) for label, prob in dist.items()}
ToCounts(dist, shots) == [label \in DOMAIN dist |-> Q(RInt(RMul(dist[label], Q(shots))))]

\* rem(shots, counts, use_table): probs[i] is the mitigator's answer for counts[i]
Rem(shots, counts, use_table, probs, files, runs, writes) ==
    LET cal == ReadoutError(use_table, files, runs, writes)
        mitigated_counts == [i \in 1..Len(counts) |-> ToCounts(Distribution(probs[i]), shots)]
    IN  [ret |-> Ok(mitigated_counts), files |-> cal.files, runs |-> cal.runs,
         writes |-> cal.writes, ran |-> cal.ran, result |-> cal.result]

\* ibu(qcs, shots, counts): measured_qubits_list[0] raises on an empty list of
\* circuits, counts[i] on a list of histograms shorter than qcs; guesses[i] is
\* the unfolder's answer for counts[i]
Ibu(qcs, shots, counts, guesses) ==
    IF qcs = <<>> \/ Len(counts) < Len(qcs) THEN Raised
    ELSE Ok([i \in 1..Len(qcs) |-> ToCounts(Distribution(guesses[i]), shots)])

----------------------------------------------------------------------------
(* ErrorMitigator.mitigate *)

\* pec's default num_samples
DefaultNumSamples == 5000

\* The persistent state a call works on and leaves behind
State(table, builds, files, runs, writes) ==
    [table |-> table, builds |-> builds, files |-> files, runs |-> runs, writes |-> writes]

\* what a call leaves: its return value, its label, the stages it invoked and
\* the persistent state
Effect(r, label, stages, st) == [ret |-> r, label |-> label, log |-> stages, st |-> st]

\* the opening test with the cancellation flag compared to True instead of False
NoMitigationWrongPec(f) == ~f.rem /\ ~f.ibu /\ f.pec

\* an opening test that also looks at the zero-noise-extrapolation flag
NoMitigationUnlessZne(f) == ~f.rem /\ ~f.ibu /\ ~f.pec /\ ~f.zne

\* the test that opens mitigate: none of rem, ibu, pec is switched on
NoMitigationSelected(f) == ~f.rem /\ ~f.ibu /\ ~f.pec

\* the pipeline in the other order: ibu if enabled, then rem if enabled
PostProcessUnfoldFirst(f, qcs, shots, counts, ext, st) ==
    LET u == Ibu(qcs, shots, counts, ext.guesses)
        afterIbu == IF f.ibu THEN u.val ELSE counts
        ibuLog == IF f.ibu THEN <<Stage("ibu", counts, afterIbu, u.ok)>> ELSE <<>>
        ibuParts == IF f.ibu THEN <<"ibu">> ELSE <<>>
        r == Rem(shots, afterIbu, TRUE, ext.probs, st.files, st.runs, st.writes)
    IN  IF f.ibu /\ ~u.ok THEN Effect(Raised, NoLabel, ibuLog, st)
        ELSE IF ~f.rem THEN Effect(Ok(afterIbu), Label(ibuParts), ibuLog, st)
        ELSE Effect(r.ret, Label(ibuParts \o <<"rem">>),
                    ibuLog \o <<Stage("rem", afterIbu, r.ret.val, TRUE)>>,
                    State(st.table, st.builds, r.files, r.runs, r.writes))

\* the standard post-processing pipeline: rem if enabled, then ibu if enabled
PostProcess(f, qcs, shots, counts, ext, st) ==
    LET remParts == IF f.rem THEN <<"rem">> ELSE <<>>
        Unfold(afterRem, remLog, st1, u) ==
            IF ~f.ibu
            THEN Effect(Ok(afterRem), Label(remParts), remLog, st1)
            ELSE IF ~u.ok
            THEN Effect(Raised, NoLabel,
                        remLog \o <<Stage("ibu", afterRem, <<>>, FALSE)>>, st1)
            ELSE Effect(u, Label(remParts \o <<"ibu">>),
                        remLog \o <<Stage("ibu", afterRem, u.val, TRUE)>>, st1)
        Correct(r) ==
            IF f.rem
            THEN Unfold(r.ret.val, <<Stage("rem", counts, r.ret.val, TRUE)>>,
                        State(st.table, st.builds, r.files, r.runs, r.writes),
                        Ibu(qcs, shots, r.ret.val, ext.guesses))
            ELSE Unfold(counts, <<>>, st, Ibu(qcs, shots, counts, ext.guesses))
    IN  Correct(Rem(shots, counts, TRUE, ext.probs, st.files, st.runs, st.writes))

\* the cancellation branch falling through into the post-processing pipeline
PecBranchThenPostProcess(f, qcs, shots, counts, ext, st) ==
    LET p == Pec(qcs, shots, DefaultNumSamples, f.eq, ext.builder, ext.runs,
                 st.table, st.builds)
        st1 == State(p.table, p.builds, st.files, st.runs, st.writes)
        q == PostProcess(f, qcs, shots, p.ret.val, ext, st1)
    IN  IF ~p.ret.ok THEN Effect(p.ret, p.label, p.log, st1)
        ELSE Effect(q.ret, q.label, p.log \o q.log, q.st)

\* the branch "if self.probabilistic_error_cancellation": pec(qcs, shots) and
\* nothing after it
PecBranch(f, qcs, shots, counts, ext, st) ==
    LET Return(p) == Effect(p.ret, p.label, p.log,
                            State(p.table, p.builds, st.files, st.runs, st.writes))
    IN  Return(Pec(qcs, shots, DefaultNumSamples, f.eq, ext.builder, ext.runs,
                   st.table, st.builds))

\* mitigate(qcs, shots, counts) on a mitigator with flags f in state st; ext
\* is what the libraries and the backend do during the call
Mitigate(f, qcs, shots, counts, ext, st) ==
    IF NoMitigationSelected(f)
    THEN Effect(Ok(counts), Label(<<"raw">>), <<>>, st)
    ELSE IF f.pec
    THEN PecBranch(f, qcs, shots, counts, ext, st)
    ELSE PostProcess(f, qcs, shots, counts, ext, st)

----------------------------------------------------------------------------
(* Inputs *)

SeqsUpTo(S, n) == UNION {[1..m -> S] : m \in 0..n}

\* circuits handed to the mitigator: QcA and QcB have the same gates on
\* different qubits, QcC is deeper
QcA == <<Gate("h", 0), Gate("x", 1)>>
QcB == <<Gate("h", 1), Gate("x", 0)>>
QcC == <<Gate("h", 0), Gate("x", 0)>>
Circuits == {QcA, QcB, QcC}

ShotsPool == {4, 20}
RawKinds == {"half", "all"}
ExecKinds == {"half", "all"}

\* a circuit together with the shape of the raw histogram its execution gave
Items == {[qc |-> QcA, kind |-> "all"], [qc |-> QcB, kind |-> "half"],
          [qc |-> QcC, kind |-> "all"]}
Batches == SeqsUpTo(Items, MaxBatch)

QcsOf(batch) == [i \in 1..Len(batch) |-> batch[i].qc]
CountsOf(batch, shots) == [i \in 1..Len(batch) |-> MakeHist(batch[i].kind, shots)]

Job(kind) == [ok |-> TRUE, kind |-> kind]
FailJob == [ok |-> FALSE, kind |-> "one"]

RunOutcome(samp, exec, raw, raw2) == [samp |-> samp, exec |-> exec, raw |-> raw, raw2 |-> raw2]

\* everything the sampling library and the backend can do in one iteration of
\* pec's loop (a field the iteration never reads is FailJob)
RunOutcomes ==
    {RunOutcome(-1, <<>>, raw, FailJob) : raw \in JobOutcomes(RawKinds)}
    \cup {RunOutcome(0, <<>>, Job(k), FailJob) : k \in RawKinds}
    \cup {RunOutcome(0, <<>>, FailJob, raw2) : raw2 \in JobOutcomes(RawKinds)}
    \cup UNION {{RunOutcome(n, exec, FailJob, FailJob) :
                    exec \in [1..n -> {Job(k) : k \in ExecKinds}]} : n \in 1..MaxSamples}
    \cup UNION {{RunOutcome(n, [j \in 1..n |-> FailJob], raw, FailJob) :
                    raw \in JobOutcomes(RawKinds)} : n \in 1..MaxSamples}

\* three of them: sampling works, sampling fails, every job fails
RunOutcomesFew ==
    {RunOutcome(1, <<Job("all")>>, Job("all"), FailJob),
     RunOutcome(-1, <<>>, Job("half"), FailJob),
     RunOutcome(-1, <<>>, FailJob, FailJob)}

External(builder, runs, probs, guesses) ==
    [builder |-> builder, runs |-> runs, probs |-> probs, guesses |-> guesses]

\* what the libraries and the backend can do during one mitigate call on n
\* circuits (only the stages the flags select are asked)
Externals(f, n, outcomes) ==
    {External(b, r, p, g) :
        b \in IF f.pec THEN [1..n -> {"ok", "fail"}] ELSE {[i \in 1..n |-> "ok"]},
        r \in IF f.pec THEN [1..n -> outcomes] ELSE {[i \in 1..n |-> FailJob]},
        p \in IF f.rem /\ ~f.pec THEN [1..n -> {"uniform", "point"}]
              ELSE {[i \in 1..n |-> "uniform"]},
        g \in IF f.ibu /\ ~f.pec THEN [1..n -> {"uniform", "peak"}]
              ELSE {[i \in 1..n |-> "uniform"]}}

----------------------------------------------------------------------------
(* State machine *)

Flags == [eq : BOOLEAN, rem : BOOLEAN, ibu : BOOLEAN, zne : BOOLEAN, pec : BOOLEAN]

OwnFile == FileKey(BackendName, <<Rows, Cols>>)
OtherFile == FileKey(BackendName, <<2 * Rows, 2 * Cols>>)

Call(op, qcs, shots, counts, use_table, num_samples) ==
    [op |-> op, qcs |-> qcs, shots |-> shots, counts |-> counts,
     use_table |-> use_table, num_samples |-> num_samples]

Ret(r, label) == [ok |-> r.ok, val |-> r.val, label |-> label]

NoCall == Call("none", <<>>, 0, <<>>, TRUE, 0)

\* no call has been made on the other mitigator
NoTwin == [ret |-> Ok(<<>>), label |-> NoLabel, log |-> <<>>]

\* ErrorMitigator.__init__ with any flags; the calibration file of this
\* device and lattice may or may not be there already (job id 0)
Init ==
    /\ flags \in Flags
    /\ pec_table = EmptyTable
    /\ rem_table \in {[k \in {OwnFile, OtherFile} |-> IF k = OwnFile THEN own ELSE 0] :
                        own \in {NoFile, 0}}
    /\ hist = [builds |-> EmptyTable, runs |-> 0, writes |-> 0, bypass |-> 0, calls |-> 0,
               pre |-> rem_table[OwnFile] # NoFile]
    /\ call = NoCall
    /\ ret = Ret(Ok(<<>>), NoLabel)
    /\ log = <<>>
    /\ heap = <<>>
    /\ threads = <<>>
    /\ twin = NoTwin

Persistent == State(pec_table, hist.builds, rem_table, hist.runs, hist.writes)

\* the state a call leaves behind
Leave(st, bypassed) ==
    /\ pec_table' = st.table
    /\ rem_table' = st.files
    /\ hist' = [hist EXCEPT !.builds = st.builds, !.runs = st.runs, !.writes = st.writes,
                            !.bypass = @ + (IF bypassed THEN 1 ELSE 0), !.calls = @ + 1]

\* mitigate(qcs, shots, counts), called on the mitigator just constructed
MitigateCall ==
    /\ call = NoCall
    /\ \E batch \in Batches, shots \in ShotsPool :
         \E ext \in Externals(flags, Len(batch), RunOutcomesFew) :
            \E e \in {Mitigate(flags, QcsOf(batch), shots, CountsOf(batch, shots),
                                ext, Persistent)} :
                /\ call' = Call("mitigate", QcsOf(batch), shots, CountsOf(batch, shots),
                                TRUE, DefaultNumSamples)
                /\ ret' = Ret(e.ret, e.label)
                /\ log' = e.log
                /\ Leave(e.st, FALSE)
    /\ UNCHANGED <<flags, heap, threads, twin>>

Next == MitigateCall

Spec == Init /\ [][Next]_vars

----------------------------------------------------------------------------
(* generate_pec_representations, called again and again on one mitigator *)

OnlyPec == [eq |-> FALSE, rem |-> FALSE, ibu |-> FALSE, zne |-> FALSE, pec |-> TRUE]

InitReps ==
    /\ Init
    /\ flags = OnlyPec
    /\ rem_table[OwnFile] = NoFile

GenerateCall ==
    /\ hist.calls < MaxCalls
    /\ \E circuits \in SeqsUpTo(Circuits, MaxBatch) :
         \E builder \in [1..Len(circuits) -> {"ok", "fail"}] :
            LET g == GeneratePecRepresentations(circuits, builder, pec_table, hist.builds)
            IN  /\ call' = Call("generate", circuits, 0, <<>>, TRUE, DefaultNumSamples)
                /\ ret' = Ret([ok |-> g.ok, val |-> g.representations], NoLabel)
                /\ log' = <<Stage("generate", pec_table, builder, g.ok)>>
                /\ Leave(State(g.table, g.builds, rem_table, hist.runs, hist.writes), FALSE)
    /\ UNCHANGED <<flags, heap, threads, twin>>

NextReps == GenerateCall

SpecReps == InitReps /\ [][NextReps]_vars

----------------------------------------------------------------------------
(* rem, called again and again on one mitigator *)

OnlyRem == [eq |-> FALSE, rem |-> TRUE, ibu |-> FALSE, zne |-> FALSE, pec |-> FALSE]

InitRem ==
    /\ Init
    /\ flags = OnlyRem

\* rem(shots, counts, use_table)
RemCall ==
    /\ hist.calls < MaxCalls
    /\ \E batch \in Batches, shots \in ShotsPool, use_table \in BOOLEAN :
         \E probs \in [1..Len(batch) -> {"uniform", "point"}] :
            LET counts == CountsOf(batch, shots)
                r == Rem(shots, counts, use_table, probs, rem_table, hist.runs, hist.writes)
            IN  /\ call' = Call("rem", <<>>, shots, counts, use_table, 0)
                /\ ret' = Ret(r.ret, NoLabel)
                /\ log' = <<Stage("calibrate", rem_table[OwnFile], r.result, r.ran)>>
                /\ Leave(State(pec_table, hist.builds, r.files, r.runs, r.writes), ~use_table)
    /\ UNCHANGED <<flags, heap, threads, twin>>

NextRem == RemCall

SpecRem == InitRem /\ [][NextRem]_vars

----------------------------------------------------------------------------
(* pec, called on the mitigator just constructed *)

InitPec ==
    /\ Init
    /\ flags.pec /\ ~flags.rem /\ ~flags.ibu /\ ~flags.zne
    /\ rem_table[OwnFile] = NoFile

\* pec(circuits, shots, num_samples)
PecCall ==
    /\ call = NoCall
    /\ \E circuits \in SeqsUpTo({QcA, QcC}, MaxBatch), shots \in ShotsPool,
          num_samples \in {1, DefaultNumSamples} :
         \E builder \in [1..Len(circuits) -> {"ok", "fail"}],
            runs \in [1..Len(circuits) -> RunOutcomes] :
            \E p \in {Pec(circuits, shots, num_samples, flags.eq, builder, runs,
                           pec_table, hist.builds)} :
                /\ call' = Call("pec", circuits, shots, <<>>, TRUE, num_samples)
                /\ ret' = Ret(p.ret, p.label)
                /\ log' = p.log
                /\ Leave(State(p.table, p.builds, rem_table, hist.runs, hist.writes), FALSE)
    /\ UNCHANGED <<flags, heap, threads, twin>>

NextPec == PecCall

SpecPec == InitPec /\ [][NextPec]_vars

----------------------------------------------------------------------------
(* _combine_pec_results on lists of sample histograms *)

NoFlags == [eq |-> FALSE, rem |-> FALSE, ibu |-> FALSE, zne |-> FALSE, pec |-> FALSE]

InitPure ==
    /\ Init
    /\ flags = NoFlags
    /\ rem_table[OwnFile] = NoFile

\* every dict from some of the bitstrings in keys to a count in pool
HistsOver(keys, pool) == UNION {[S -> {Q(c) : c \in pool}] : S \in SUBSET keys}

CombineKeys == {Bits(0), Bits(1)}
CombinePool == {0, 1, 3}
CombineShots == {0, 1, 7, 100}

\* the sample histograms of the documented example
ExampleSamples ==
    <<[b \in CombineKeys |-> IF Val(b) = 0 THEN Q(80) ELSE Q(20)],
      [b \in CombineKeys |-> IF Val(b) = 0 THEN Q(60) ELSE Q(40)]>>

CombineInputs == SeqsUpTo(HistsOver(CombineKeys, CombinePool), MaxSamples) \cup {ExampleSamples}

\* _combine_pec_results(all_counts, representation, target_shots)
CombineCall ==
    /\ call = NoCall
    /\ \E all_counts \in CombineInputs, target_shots \in CombineShots :
         /\ call' = Call("combine", <<>>, target_shots, all_counts, TRUE, 0)
         /\ ret' = Ret(Ok(<<CombinePecResults(all_counts, Represent(QcA), target_shots)>>),
                       NoLabel)
         /\ log' = <<>>
    /\ UNCHANGED <<flags, pec_table, rem_table, hist, heap, threads, twin>>

NextCombine == CombineCall

SpecCombine == InitPure /\ [][NextCombine]_vars

----------------------------------------------------------------------------
(* equalize on lists of histograms *)

EqualizePool == {0, 1, 2}
EqualizeShots == {0, 3, 4}

\* histograms over the first n bitstrings, for every n
EqualizeHists ==
    UNION {[{b \in BitStrings : Val(b) < n} -> {Q(c) : c \in EqualizePool}] :
              n \in 0..Pow2(K)}

\* histograms over all bitstrings with pairwise distinct counts
DistinctHists ==
    {[b \in BitStrings |-> Q((Val(b) * m + c) % Pow2(K))] :
        m \in {1, 3}, c \in 0..(Pow2(K) - 1)}

\* the documented example {"00": 10, "01": 30, "10": 5, "11": 55}
ExampleCounts == [b \in BitStrings |-> Q(<<10, 30, 5, 55>>[(Val(b) % 4) + 1])]

\* one histogram, alone or beside a raw histogram
EqualizeInputs(shots) ==
    {<<h>> : h \in EqualizeHists \cup DistinctHists \cup {ExampleCounts}}
    \cup {<<h, MakeHist(k, shots)>> : h \in EqualizeHists, k \in RawKinds}
    \cup {<<MakeHist(k, shots), h>> : h \in EqualizeHists, k \in RawKinds}

\* equalize(counts, shots)
EqualizeCall ==
    /\ call = NoCall
    /\ \E shots \in EqualizeShots :
         \E counts \in EqualizeInputs(shots) :
            LET r == Equalize(counts, shots)
            IN  /\ call' = Call("equalize", <<>>, shots, counts, TRUE, 0)
                /\ ret' = Ret(r, NoLabel)
                /\ log' = <<>>
    /\ UNCHANGED <<flags, pec_table, rem_table, hist, heap, threads, twin>>

\* equalize(previous, shots) on what the call before returned
EqualizeAgain ==
    /\ call.op = "equalize"
    /\ ret.ok
    /\ LET r == Equalize(ret.val, call.shots)
       IN  /\ call' = Call("equalize again", <<>>, call.shots, ret.val, TRUE, 0)
           /\ ret' = Ret(r, NoLabel)
           /\ log' = <<Stage("equalize", call.counts, ret.val, TRUE)>>
    /\ UNCHANGED <<flags, pec_table, rem_table, hist, heap, threads, twin>>

NextEqualize == EqualizeCall \/ EqualizeAgain

SpecEqualize == InitPure /\ [][NextEqualize]_vars

----------------------------------------------------------------------------
(* Claims about mitigate, checked under Spec *)

StagesRun == [i \in 1..Len(log) |-> log[i].stage]

AllValues(hs) == UNION {{hs[i][b] : b \in DOMAIN hs[i]} : i \in 1..Len(hs)}

\* C1: with every flag false, mitigate returns its input histograms unchanged
\* (same list, same order, same counts), invokes no stage, leaves the caches
\* alone and returns a label that starts with "raw-".
C1_RawPassthrough ==
    (call.op = "mitigate" /\ flags = NoFlags) =>
        /\ ret.ok
        /\ ret.val = call.counts
        /\ log = <<>>
        /\ pec_table = EmptyTable /\ hist.runs = 0 /\ hist.writes = 0
        /\ Len(ret.label.techniques) >= 1
        /\ Head(ret.label.techniques) = "raw"

C1_Witness ==
    /\ call.op = "mitigate" /\ flags = NoFlags
    /\ Len(call.counts) = 2
    /\ call.counts[1] # call.counts[2]

\* C2: with the cancellation flag false, rem (if enabled) runs strictly before
\* ibu (if enabled); rem's input is the raw histograms and, when both run,
\* ibu's input is rem's output; a stage whose flag is false is not invoked;
\* the label lists exactly the stages that ran, in the order they ran.
C2_CorrectionBeforeUnfolding ==
    (call.op = "mitigate" /\ ~flags.pec) =>
        /\ StagesRun = (IF flags.rem THEN <<"rem">> ELSE <<>>)
                       \o (IF flags.ibu THEN <<"ibu">> ELSE <<>>)
        /\ flags.rem => log[1].in = call.counts
        /\ (flags.rem /\ flags.ibu) => log[2].in = log[1].out
        /\ (ret.ok /\ StagesRun # <<>>) => ret.label.techniques = StagesRun
        /\ (ret.ok /\ StagesRun = <<>>) => ret.label.techniques = <<"raw">>

C2_Witness ==
    /\ call.op = "mitigate" /\ ~flags.pec /\ flags.rem /\ flags.ibu
    /\ ret.ok
    /\ Len(log) = 2
    /\ log[1].out # call.counts
    /\ log[2].out # log[1].out
    /\ ret.label.techniques = <<"rem", "ibu">>

\* C3: with the cancellation flag true, whatever the other flags, mitigate runs
\* the pec pipeline only: rem and ibu are not invoked and no calibration is
\* run, the result is built from the sampler's histograms (not from the counts
\* argument), and equalize is applied to the sampler's output exactly when the
\* equalization flag is true.
C3_CancellationExclusive ==
    (call.op = "mitigate" /\ flags.pec) =>
        LET sampled == Len(log) >= 2 /\ log[2].stage = "pec" /\ log[2].ok
            outputs == [i \in 1..Len(log[2].out) |-> log[2].out[i].val]
        IN  /\ \A i \in 1..Len(log) : log[i].stage \notin {"rem", "ibu"}
            /\ hist.runs = 0 /\ hist.writes = 0
            /\ Len(log) >= 1 /\ log[1].stage = "generate" /\ log[1].in = call.qcs
            /\ (\E i \in 1..Len(log) : log[i].stage = "equalize") <=> (sampled /\ flags.eq)
            /\ (sampled /\ flags.eq) =>
                   /\ Len(log) = 3 /\ log[3].in = outputs
                   /\ ret.ok = log[3].ok
                   /\ ret.ok => ret.val = log[3].out
            /\ (sampled /\ ~flags.eq) => (ret.ok /\ ret.val = outputs)
            /\ ~sampled => ~ret.ok

C3_Witness ==
    /\ call.op = "mitigate" /\ flags.pec /\ flags.rem /\ flags.ibu /\ flags.eq
    /\ ret.ok
    /\ Len(log) = 3
    /\ ret.val # call.counts
    /\ \E i \in 1..Len(log[2].out) :
           /\ log[2].out[i].path = "combined"
           /\ log[2].out[i].sampled <= log[2].out[i].requested

\* C4: with the cancellation flag false and the equalization flag true, every
\* count mitigate returns is 0 or shots/(0.5*rows*cols).
C4_EqualizedWhenFlagged ==
    (call.op = "mitigate" /\ ~flags.pec /\ flags.eq /\ ret.ok) =>
        AllValues(ret.val) \subseteq {Zero, EqualizedValue(call.shots)}

----------------------------------------------------------------------------
(* Claims about the representation cache, checked under SpecReps *)

KeyOf(circuit) == GetKey(BackendName, circuit)

\* the table before the last generate call, and what the builder did in it
TableBefore == log[1].in
BuilderDid == log[1].out

\* request i of the last generate call was served: from the table as it was
\* before the call, or by a build that succeeded at or before i
Served(i) ==
    \/ KeyOf(call.qcs[i]) \in DOMAIN TableBefore
    \/ \E j \in 1..i : KeyOf(call.qcs[j]) = KeyOf(call.qcs[i]) /\ BuilderDid[j] = "ok"

\* C5, as claimed: the builder is invoked at most once per cache key, failed
\* builds included, and every request for a key returns what the first did.
C5_BuilderOncePerKey ==
    /\ \A key \in DOMAIN hist.builds : hist.builds[key] <= 1
    /\ (call.op = "generate" /\ ret.ok) =>
           \A i, j \in 1..Len(call.qcs) :
               KeyOf(call.qcs[i]) = KeyOf(call.qcs[j]) => ret.val[i] = ret.val[j]

\* C5, amended: the builder succeeds at most once per cache key.  Within a
\* call, once a request for a key was served, every later request for that key
\* returns the same artifact, which is the one stored; and once a key is
\* stored, no later call invokes the builder for it, changes it, or returns
\* anything else for it.
C5_BuiltOnceWhenStored ==
    /\ [](call.op = "generate" /\ ret.ok =>
            \A i \in 1..Len(call.qcs) : Served(i) =>
                /\ KeyOf(call.qcs[i]) \in DOMAIN pec_table
                /\ ret.val[i] = pec_table[KeyOf(call.qcs[i])]
                /\ \A j \in i..Len(call.qcs) :
                       KeyOf(call.qcs[j]) = KeyOf(call.qcs[i]) => ret.val[j] = ret.val[i])
    /\ [][\A key \in DOMAIN pec_table :
              /\ key \in DOMAIN pec_table'
              /\ pec_table'[key] = pec_table[key]
              /\ BuildCount(hist'.builds, key) = BuildCount(hist.builds, key)
              /\ \A i \in 1..Len(call'.qcs) :
                     KeyOf(call'.qcs[i]) = key => ret'.val[i] = pec_table[key]]_vars

C5_Witness ==
    /\ call.op = "generate" /\ hist.calls = 2 /\ ret.ok
    /\ \E i \in 1..Len(call.qcs) :
           /\ KeyOf(call.qcs[i]) \in DOMAIN TableBefore
           /\ ret.val[i] = TableBefore[KeyOf(call.qcs[i])]
           /\ ret.val[i] # <<>>
           /\ hist.builds[KeyOf(call.qcs[i])] = 1

\* request i of the last generate call ran the builder, which raised
BuildFailed(i) == ~Served(i) /\ BuilderDid[i] = "fail"

\* the representations the call would have returned had the build for
\* circuit i not raised
HadNotFailed(i) ==
    GeneratePecRepresentations(call.qcs, [BuilderDid EXCEPT ![i] = "ok"],
                               TableBefore, EmptyTable).representations

\* C8, as claimed: a build that raises for circuit i leaves an empty
\* representation at position i, the list has one entry per circuit in order,
\* and every other circuit's representation is what it would have been had
\* circuit i not failed.
C8_FailureIsolated ==
    (call.op = "generate" /\ call.qcs # <<>>) =>
        /\ ret.ok
        /\ Len(ret.val) = Len(call.qcs)
        /\ \A i \in 1..Len(call.qcs) : BuildFailed(i) =>
               /\ ret.val[i] = <<>>
               /\ \A j \in 1..Len(call.qcs) : j # i => ret.val[j] = HadNotFailed(i)[j]

\* C8, amended: the same, for every other circuit whose cache key is not
\* circuit i's; and every circuit whose build did not fail gets its
\* representation.
C8_FailureIsolatedAcrossKeys ==
    (call.op = "generate" /\ call.qcs # <<>>) =>
        /\ ret.ok
        /\ Len(ret.val) = Len(call.qcs)
        /\ \A i \in 1..Len(call.qcs) : BuildFailed(i) =>
               /\ ret.val[i] = <<>>
               /\ \A j \in 1..Len(call.qcs) :
                      KeyOf(call.qcs[j]) # KeyOf(call.qcs[i]) =>
                          ret.val[j] = HadNotFailed(i)[j]
        /\ \A i \in 1..Len(call.qcs) : Served(i) => ret.val[i] # <<>>

C8_Witness ==
    /\ call.op = "generate" /\ Len(call.qcs) = 2 /\ ret.ok
    /\ BuildFailed(1)
    /\ KeyOf(call.qcs[2]) # KeyOf(call.qcs[1])
    /\ ret.val = <<<<>>, Represent(call.qcs[2])>>

----------------------------------------------------------------------------
(* Claim about the calibration cache, checked under SpecRem *)

\* C6: when the calibration file exists and use_table is true, ReadoutError
\* loads it, runs no experiment and writes nothing; otherwise it runs one
\* experiment and writes the file once.  Every experiment is followed by one
\* write, no other file is touched, and calls that do not bypass the table run
\* the experiment at most once.
C6_CalibrationGetOrCreate ==
    /\ call.op = "rem" =>
           LET existed == log[1].in # NoFile
               ran == log[1].ok
           IN  /\ ran <=> ~(call.use_table /\ existed)
               /\ ~ran => (log[1].out = log[1].in /\ rem_table[OwnFile] = log[1].in)
               /\ ran => (log[1].out = hist.runs /\ rem_table[OwnFile] = hist.runs)
    /\ hist.writes = hist.runs
    /\ hist.runs <= hist.bypass + (IF hist.pre THEN 0 ELSE 1)
    /\ rem_table[OtherFile] = 0

C6_Witness ==
    /\ call.op = "rem" /\ call.use_table
    /\ hist.calls = 2 /\ hist.bypass = 0 /\ ~hist.pre
    /\ hist.runs = 1 /\ hist.writes = 1
    /\ ~log[1].ok
    /\ log[1].out = 1

----------------------------------------------------------------------------
(* Claim about pec, checked under SpecPec *)

\* C7, as claimed, on non-empty batches of a mitigator without equalization:
\* pec never raises and returns one histogram per circuit, in order.
C7_PecNeverRaises ==
    (call.op = "pec" /\ call.qcs # <<>> /\ ~flags.eq) =>
        /\ ret.ok
        /\ Len(ret.val) = Len(call.qcs)

----------------------------------------------------------------------------
(* Claim about _combine_pec_results, checked under SpecCombine *)

\* the count of bitstring b summed over the samples of the last combine call
SampleSum(b) == SumOver([i \in 1..Len(call.counts) |-> Get(call.counts[i], b)],
                        1..Len(call.counts))[1]

RECURSIVE IntSum(_, _)
IntSum(f, S) == IF S = {} THEN 0
                ELSE LET x == CHOOSE y \in S : TRUE IN f[x] + IntSum(f, S \ {x})

\* the sum over all samples and bitstrings
GrandSum == IntSum([b \in AllBitstrings(call.counts) |-> SampleSum(b)],
                   AllBitstrings(call.counts))

\* the sum of the returned counts
ReturnedSum == Total(ret.val[1])[1]

Combined == call.op = "combine" /\ call.counts # <<>> /\ GrandSum > 0

----------------------------------------------------------------------------
(* Claim about equalize, checked under SpecEqualize *)

\* C10: equalizing the output of a successful equalize succeeds and returns
\* that output unchanged.
C10_EqualizeIdempotent ==
    call.op = "equalize again" => (ret.ok /\ ret.val = call.counts)

C10_Witness ==
    /\ call.op = "equalize again" /\ ret.ok
    /\ log[1].in # call.counts
    /\ Zero \in AllValues(ret.val)
    /\ \E v \in AllValues(ret.val) : RLess(Zero, v)

\* the value at rank r (counted from 0) of the counts of h sorted ascending
RankValue(h, r) ==
    CHOOSE v \in {h[b] : b \in DOMAIN h} :
        /\ Cardinality({b \in DOMAIN h : RLess(h[b], v)}) <= r
        /\ r < Cardinality({b \in DOMAIN h : ~RLess(v, h[b])})

DistinctCounts(h) == \A a, b \in DOMAIN h : a # b => h[a] # h[b]

\* C11: in every histogram equalize returns, the keys are the input's; with
\* the cutoff the value at rank 2^(K-1) of the input counts sorted ascending,
\* a bitstring whose count is below the cutoff has 0 and every other one has
\* shots/(0.5*rows*cols).  For a histogram over all 2^K bitstrings with
\* pairwise distinct counts, the zeroed ones are exactly the 2^(K-1) lowest.
C11_RankThreshold ==
    (call.op = "equalize" /\ ret.ok) =>
        /\ Len(ret.val) = Len(call.counts)
        /\ \A i \in 1..Len(call.counts) :
               LET h == call.counts[i]
                   cutoff == RankValue(h, Pow2(K - 1))
                   below == {b \in DOMAIN h : RLess(h[b], cutoff)}
               IN  /\ DOMAIN ret.val[i] = DOMAIN h
                   /\ \A b \in below : ret.val[i][b] = Zero
                   /\ \A b \in DOMAIN h \ below :
                          ret.val[i][b] = RNorm(2 * call.shots, Rows * Cols)
                   /\ (DOMAIN h = BitStrings /\ DistinctCounts(h)) =>
                          /\ Cardinality(below) = Pow2(K - 1)
                          /\ \A b \in below, c \in DOMAIN h \ below : RLess(h[b], h[c])

C11_Witness ==
    /\ call.op = "equalize" /\ ret.ok /\ call.shots > 0
    /\ call.counts = <<ExampleCounts>>
    /\ Cardinality({b \in BitStrings : ret.val[1][b] = Zero}) = Pow2(K - 1)
    /\ ret.val[1][Bits(0)] = Zero /\ ret.val[1][Bits(1)] = RNorm(2 * call.shots, Rows * Cols)

----------------------------------------------------------------------------
(* Histograms as objects: which dicts a call receives and which it builds *)

\* the dicts at the addresses refs
Deref(h, refs) == [i \in 1..Len(refs) |-> h[refs[i]]]

\* new dicts holding values, at the next free addresses
Alloc(h, values) ==
    [ok |-> TRUE, heap |-> h \o values,
     refs |-> [i \in 1..Len(values) |-> Len(h) + i]]

\* a stage that builds one new dict per result, or raises before returning any
Built(h, r) == IF r.ok THEN Alloc(h, r.val) ELSE [ok |-> FALSE, heap |-> h, refs |-> <<>>]

\* rem: the comprehension {label: int(prob * shots) ...} builds each result
RemObj(h, refs, r) == Built(h, r)

\* ibu: ibu_mitigated.append({label: ...}) builds each result
IbuObj(h, refs, r) == Built(h, r)

\* an equalize that writes the new values into the dicts it was given
EqualizeInPlace(h, refs, r) ==
    IF r.ok
    THEN [ok |-> TRUE,
          heap |-> [a \in 1..Len(h) |->
                       IF \E i \in 1..Len(refs) : refs[i] = a
                       THEN r.val[CHOOSE i \in 1..Len(refs) : refs[i] = a]
                       ELSE h[a]],
          refs |-> refs]
    ELSE [ok |-> FALSE, heap |-> h, refs |-> <<>>]

\* equalize: eq_count = {} is filled and appended for each histogram
EqualizeObj(h, refs, r) == Built(h, r)

\* _combine_pec_results: {} or the dict built from all_bitstrings
CombineObj(h, refs, r) == Built(h, r)

RECURSIVE StagesObj(_, _, _, _)
\* mitigate without cancellation: the counts argument goes through the first
\* n stages that ran, each taking the dicts the one before returned
StagesObj(h, refs, stages, n) ==
    IF n = 0 THEN [ok |-> TRUE, heap |-> h, refs |-> refs]
    ELSE LET Then(p, r) ==
                 IF ~p.ok THEN p
                 ELSE IF stages[n].stage = "rem" THEN RemObj(p.heap, p.refs, r)
                 ELSE IbuObj(p.heap, p.refs, r)
         IN  Then(StagesObj(h, refs, stages, n - 1),
                  [ok |-> stages[n].ok, val |-> stages[n].out])

\* mitigate: with no stage, "return counts, label" hands back the argument
MitigateObj(h, refs, e) == StagesObj(h, refs, e.log, Len(e.log))

----------------------------------------------------------------------------
(* One call of mitigate, rem, ibu, equalize or _combine_pec_results on dicts
   the caller owns *)

InitHeap ==
    /\ Init
    /\ ~flags.pec /\ ~flags.zne
    /\ rem_table[OwnFile] = NoFile

\* what the call leaves: the stage record holds the addresses of the argument
\* dicts and of the returned ones, and whether a stage ran and returned
Objects(op, args, o, ran) ==
    /\ heap' = o.heap
    /\ log' = <<Stage(op, args.refs, o.refs, ran /\ o.ok)>>

MitigateObjects ==
    /\ call = NoCall
    /\ \E batch \in Batches, shots \in ShotsPool :
         \E ext \in Externals(flags, Len(batch), RunOutcomesFew),
            args \in {Alloc(heap, CountsOf(batch, shots))} :
            \E e \in {Mitigate(flags, QcsOf(batch), shots, CountsOf(batch, shots),
                                ext, Persistent)} :
              \E o \in {MitigateObj(args.heap, args.refs, e)} :
                /\ call' = Call("mitigate", QcsOf(batch), shots, CountsOf(batch, shots),
                                TRUE, DefaultNumSamples)
                /\ ret' = Ret([ok |-> o.ok, val |-> Deref(o.heap, o.refs)], e.label)
                /\ Objects("mitigate", args, o, e.log # <<>>)
                /\ Leave(e.st, FALSE)
    /\ UNCHANGED <<flags, threads, twin>>

RemObjects ==
    /\ call = NoCall
    /\ \E batch \in Batches, shots \in ShotsPool, use_table \in BOOLEAN :
         \E probs \in [1..Len(batch) -> {"uniform", "point"}],
            args \in {Alloc(heap, CountsOf(batch, shots))} :
            \E r \in {Rem(shots, CountsOf(batch, shots), use_table, probs,
                          rem_table, hist.runs, hist.writes)} :
              \E o \in {RemObj(args.heap, args.refs, r.ret)} :
                /\ call' = Call("rem", <<>>, shots, CountsOf(batch, shots), use_table, 0)
                /\ ret' = Ret([ok |-> o.ok, val |-> Deref(o.heap, o.refs)], NoLabel)
                /\ Objects("rem", args, o, TRUE)
                /\ Leave(State(pec_table, hist.builds, r.files, r.runs, r.writes),
                         ~use_table)
    /\ UNCHANGED <<flags, threads, twin>>

IbuObjects ==
    /\ call = NoCall
    /\ \E batch \in Batches, shots \in ShotsPool :
         \E guesses \in [1..Len(batch) -> {"uniform", "peak"}],
            args \in {Alloc(heap, CountsOf(batch, shots))} :
            \E o \in {IbuObj(args.heap, args.refs,
                             Ibu(QcsOf(batch), shots, CountsOf(batch, shots), guesses))} :
                /\ call' = Call("ibu", QcsOf(batch), shots, CountsOf(batch, shots), TRUE, 0)
                /\ ret' = Ret([ok |-> o.ok, val |-> Deref(o.heap, o.refs)], NoLabel)
                /\ Objects("ibu", args, o, TRUE)
    /\ UNCHANGED <<flags, pec_table, rem_table, hist, threads, twin>>

EqualizeObjects ==
    /\ call = NoCall
    /\ \E shots \in EqualizeShots :
         \E counts \in EqualizeInputs(shots) :
            \E args \in {Alloc(heap, counts)} :
              \E o \in {EqualizeObj(args.heap, args.refs, Equalize(counts, shots))} :
                /\ call' = Call("equalize", <<>>, shots, counts, TRUE, 0)
                /\ ret' = Ret([ok |-> o.ok, val |-> Deref(o.heap, o.refs)], NoLabel)
                /\ Objects("equalize", args, o, TRUE)
    /\ UNCHANGED <<flags, pec_table, rem_table, hist, threads, twin>>

CombineObjects ==
    /\ call = NoCall
    /\ \E all_counts \in CombineInputs, target_shots \in CombineShots :
         \E args \in {Alloc(heap, all_counts)} :
            \E o \in {CombineObj(args.heap, args.refs,
                         Ok(<<CombinePecResults(all_counts, Represent(QcA), target_shots)>>))} :
                /\ call' = Call("combine", <<>>, target_shots, all_counts, TRUE, 0)
                /\ ret' = Ret([ok |-> o.ok, val |-> Deref(o.heap, o.refs)], NoLabel)
                /\ Objects("combine", args, o, TRUE)
    /\ UNCHANGED <<flags, pec_table, rem_table, hist, threads, twin>>

NextHeap ==
    \/ MitigateObjects
    \/ RemObjects
    \/ IbuObjects
    \/ EqualizeObjects
    \/ CombineObjects

SpecHeap == InitHeap /\ [][NextHeap]_vars

\* C12: after a call of mitigate, rem, ibu, equalize or _combine_pec_results,
\* every dict passed in holds the keys and counts it held before the call, and
\* when a stage ran and returned, the dicts returned are new ones: none of
\* them is one of the arguments, and no two of them are the same dict.
C12_NoInPlaceMutation ==
    call.op \in {"mitigate", "rem", "ibu", "equalize", "combine"} =>
        LET args == log[1].in
            outs == log[1].out
        IN  /\ Len(args) = Len(call.counts)
            /\ Deref(heap, args) = call.counts
            /\ log[1].ok =>
                   /\ \A i \in 1..Len(outs), j \in 1..Len(args) : outs[i] # args[j]
                   /\ \A i, j \in 1..Len(outs) : i # j => outs[i] # outs[j]
                   /\ ret.ok /\ ret.val = Deref(heap, outs)

C12_Witness ==
    /\ call.op = "equalize" /\ ret.ok /\ log[1].ok
    /\ Len(call.counts) = 2
    /\ ret.val[1] # call.counts[1]
    /\ Deref(heap, log[1].in) = call.counts
    /\ Deref(heap, log[1].out) = ret.val

----------------------------------------------------------------------------
(* ErrorMitigator.zne *)

\* len(scale_factors)
NumScales == 7

\* np.array([1., 1.5, 2., 2.5, 3., 3.5, 4.])
ScaleFactors == [i \in 1..NumScales |-> RNorm(i + 1, 2)]

RSub(x, y) == RAdd(x, RMul(Q(-1), y))

RECURSIVE RPow(_, _)
RPow(x, p) == IF p = 0 THEN Q(1) ELSE RMul(x, RPow(x, p - 1))

RECURSIVE MomentTo(_, _, _, _)
\* sum of xs[i]^p * ys[i] over the first n points
MomentTo(xs, ys, p, n) ==
    IF n = 0 THEN Zero
    ELSE RAdd(RMul(RPow(xs[n], p), ys[n]), MomentTo(xs, ys, p, n - 1))

\* determinant of the 3x3 matrix with rows m[1..3], m[4..6], m[7..9]
Det3(m) ==
    RAdd(RSub(RMul(m[1], RSub(RMul(m[5], m[9]), RMul(m[6], m[8]))),
              RMul(m[2], RSub(RMul(m[4], m[9]), RMul(m[6], m[7])))),
         RMul(m[3], RSub(RMul(m[4], m[8]), RMul(m[5], m[7]))))

\* zne.PolyFactory.extrapolate(xs, ys, 2): the least-squares polynomial of
\* degree 2 through the points, evaluated at 0 (normal equations, Cramer)
Extrapolate(xs, ys) ==
    LET ones == [i \in 1..Len(xs) |-> Q(1)]
        Fit(S, T) ==
            RDiv(Det3(<<T[1], S[2], S[3], T[2], S[3], S[4], T[3], S[4], S[5]>>),
                 Det3(<<S[1], S[2], S[3], S[2], S[3], S[4], S[3], S[4], S[5]>>))
    IN  Fit([p \in 1..5 |-> MomentTo(xs, ones, p - 1, Len(xs))],
            [p \in 1..3 |-> MomentTo(xs, ys, p - 1, Len(xs))])

\* all_exps[bitstring] for one step: counts.get(bitstring) / shots for every
\* scale, or, when .get gives None at some scale (TypeError), 0 for every scale
Exps(counts, shots, bitstring) ==
    IF \A i \in 1..Len(counts) : bitstring \in DOMAIN counts[i]
    THEN [i \in 1..Len(counts) |-> RDiv(counts[i][bitstring], Q(shots))]
    ELSE [i \in 1..Len(counts) |-> Zero]

\* the division raises ZeroDivisionError before any .get gives None
DivisionRaises(counts, shots) ==
    shots = 0 /\ \E b \in BitStrings : b \in DOMAIN counts[1]

\* The fitted value at 0 is linear in the ys: the weight of point i is the fit
\* of the data that is 1 at point i and 0 elsewhere.
ScaleWeights ==
    [i \in 1..NumScales |->
        Extrapolate(ScaleFactors, [j \in 1..NumScales |-> IF j = i THEN Q(1) ELSE Zero])]

RECURSIVE WeightedTo(_, _)
WeightedTo(ys, n) ==
    IF n = 0 THEN Zero ELSE RAdd(RMul(ScaleWeights[n], ys[n]), WeightedTo(ys, n - 1))

\* zne.PolyFactory.extrapolate(scale_factors, exp, 2)
ZeroNoiseValue(exp) == WeightedTo(exp, NumScales)

\* dict(zip(bitstrings, [int(znv * shots) ...])) for one step
Extrapolated(exps, shots) ==
    [b \in BitStrings |-> Q(RInt(RMul(ZeroNoiseValue(exps[b]), Q(shots))))]

RECURSIVE RemSteps(_, _, _, _, _)
\* [self.rem(shots, all_count) for all_count in all_counts], first n steps:
\* every step constructs a ReadoutError
RemSteps(shots, all_counts, probs, st, n) ==
    IF n = 0 THEN [out |-> <<>>, files |-> st.files, runs |-> st.runs, writes |-> st.writes]
    ELSE LET Step(p, r) == [out |-> Append(p.out, r.ret.val), files |-> r.files,
                            runs |-> r.runs, writes |-> r.writes]
             After(p) == Step(p, Rem(shots, all_counts[n], TRUE, probs[n],
                                     p.files, p.runs, p.writes))
         IN  After(RemSteps(shots, all_counts, probs, st, n - 1))

\* a circuit handed to the sampler: the step it draws and the scale factors
\* it was folded with (none: not folded)
Submitted(step, scales) == [step |-> step, scales |-> scales]

\* zne(shots, steps); ext is what the backend and the libraries do: the job of
\* the step-zero circuit (run with the sampler's own shot count), the job of
\* each later step, and the answers of the readout mitigator and the unfolder.
\* The results of the later steps are awaited before rem runs, the result of
\* the step-zero job after the fit.
Zne(f, shots, steps, ext, st) ==
    LET submitted == <<Submitted(0, <<>>)>>
                     \o [step \in 1..steps |-> Submitted(step, ScaleFactors)]
        first == RunCircuit(ext.first, ext.first_shots)
        raw == [step \in 1..steps |->
                   [i \in 1..NumScales |-> MakeHist("all", shots)]]
        folded == [i \in 1..NumScales |-> QcA]
        Return(r, label, stages, files) ==
            Effect(r, label, stages,
                   State(st.table, st.builds, files.files, files.runs, files.writes))
        Finish(corrected, all_counts, all_exps_arr, mitigated_counts) ==
            LET stages == <<Stage("execute", submitted, first.val, first.ok),
                            Stage("rem", raw, corrected.out, TRUE),
                            Stage("ibu", corrected.out, all_counts, TRUE),
                            Stage("fit", all_counts, all_exps_arr, TRUE)>>
                Equalized(eq) ==
                    Return(eq, IF eq.ok THEN Label(<<"zne">>) ELSE NoLabel,
                           stages \o <<Stage("equalize", mitigated_counts, eq.val, eq.ok)>>,
                           corrected)
            IN  IF ~first.ok THEN Return(Raised, NoLabel, stages, corrected)
                ELSE IF f.eq THEN Equalized(Equalize(mitigated_counts, shots))
                ELSE Return(Ok(mitigated_counts), Label(<<"zne">>), stages, corrected)
        Fit(corrected, all_counts) ==
            IF \E step \in 1..steps : DivisionRaises(all_counts[step], shots)
            THEN Return(Raised, NoLabel,
                        <<Stage("execute", submitted, <<>>, FALSE)>>, corrected)
            ELSE LET all_exps_arr ==
                         [step \in 1..steps |->
                             [b \in BitStrings |-> Exps(all_counts[step], shots, b)]]
                 IN  Finish(corrected, all_counts, all_exps_arr,
                            <<first.val>> \o [step \in 1..steps |->
                                                 Extrapolated(all_exps_arr[step], shots)])
        Unfold(corrected) ==
            Fit(corrected,
                [step \in 1..steps |->
                    Ibu(folded, shots, corrected.out[step], ext.guesses[step]).val])
    IN  IF \E step \in 1..steps : ~ext.jobs[step]
        THEN Effect(Raised, NoLabel, <<Stage("execute", submitted, <<>>, FALSE)>>, st)
        ELSE Unfold(RemSteps(shots, raw, ext.probs, st, steps))

----------------------------------------------------------------------------
(* zne, called on the mitigator just constructed *)

MaxSteps == 2

\* zne reads no flag but equalization
InitZne ==
    /\ Init
    /\ ~flags.pec /\ ~flags.rem /\ ~flags.ibu

\* what the unfolder answers for the scale factors of one step
GuessPatterns ==
    {[i \in 1..NumScales |-> k] : k \in {"uniform", "point"}}
    \cup {[i \in 1..NumScales |-> IF i = j THEN "point" ELSE "uniform"] :
             j \in {1, NumScales}}
    \cup {[i \in 1..NumScales |-> IF i % 2 = 0 THEN "peak" ELSE "uniform"]}

\* the jobs of the later steps: all return, or one of them raises
JobsOf(steps) ==
    {[step \in 1..steps |-> TRUE]}
    \cup {[step \in 1..steps |-> step # bad] : bad \in 1..steps}

ZneExternals(steps) ==
    {[first |-> first, first_shots |-> first_shots, jobs |-> jobs,
      probs |-> [step \in 1..steps |-> [i \in 1..NumScales |-> "uniform"]],
      guesses |-> guesses] :
        first \in JobOutcomes(RawKinds), first_shots \in ShotsPool,
        jobs \in JobsOf(steps), guesses \in [1..steps -> GuessPatterns]}

\* zne(shots, steps)
ZneCall ==
    /\ call = NoCall
    /\ \E shots \in ShotsPool, steps \in 0..MaxSteps :
         \E ext \in ZneExternals(steps) :
            \E e \in {Zne(flags, shots, steps, ext, Persistent)} :
                /\ call' = Call("zne", <<>>, shots, <<>>, TRUE, 0)
                /\ ret' = Ret(e.ret, e.label)
                /\ log' = e.log
                /\ Leave(e.st, FALSE)
    /\ UNCHANGED <<flags, heap, threads, twin>>

NextZne == ZneCall

SpecZne == InitZne /\ [][NextZne]_vars

\* the steps argument of the last zne call, and whether its jobs all returned
ZneSteps == Len(log[1].in) - 1
ZneFitted == call.op = "zne" /\ Len(log) >= 4

\* C13, as claimed: for every bitstring and every scale factor the value fed
\* to the fit is count/shots when the bitstring is in that scale's histogram
\* and 0 when it is not, whatever holds at the other scales; every bitstring
\* has one value per scale factor.
C13_MissingOutcomeIsZero ==
    ZneFitted =>
        \A step \in 1..ZneSteps :
            /\ DOMAIN log[4].out[step] = BitStrings
            /\ \A b \in BitStrings :
                   /\ Len(log[4].out[step][b]) = NumScales
                   /\ \A i \in 1..NumScales :
                          LET counts == log[4].in[step][i]
                          IN  log[4].out[step][b][i] =
                                  IF b \in DOMAIN counts
                                  THEN RNorm(counts[b][1], counts[b][2] * call.shots)
                                  ELSE Zero

\* C14, as claimed: for steps >= 1 and any flags, when every job returns, zne
\* submits the step-zero circuit once and unfolded, and returns steps+1
\* histograms: the raw histogram of that execution, then the extrapolated
\* histogram of each later step in step order.
C14_StepZeroUnmodified ==
    (call.op = "zne" /\ ZneSteps >= 1 /\ log[1].ok) =>
        /\ Cardinality({j \in 1..Len(log[1].in) : log[1].in[j].step = 0}) = 1
        /\ \A j \in 1..Len(log[1].in) :
               log[1].in[j].step = 0 => log[1].in[j].scales = <<>>
        /\ ret.ok
        /\ Len(ret.val) = ZneSteps + 1
        /\ ret.val[1] = log[1].out
        /\ \A step \in 1..ZneSteps :
               ret.val[step + 1] = Extrapolated(log[4].out[step], call.shots)

----------------------------------------------------------------------------
(* Claim about pec's sampling, checked under SpecPec *)

\* C15: for a circuit with a representation, pec asks for
\* min(num_samples, shots div 10) sampled circuits; when n > 0 circuits come
\* back each of them is run with max(1, shots div n) shots; and when n is at
\* most the number asked for, the shots run on the sampled circuits total at
\* most shots.
C15_SamplingBudget ==
    (call.op = "pec" /\ Len(log) >= 2) =>
        \A i \in 1..Len(log[2].out) :
            LET e == log[2].out[i]
                tenth == call.shots \div 10
                n == e.sampled
            IN  log[1].out[i] # <<>> =>
                    /\ e.requested = (IF call.num_samples <= tenth
                                      THEN call.num_samples ELSE tenth)
                    /\ n > 0 =>
                           e.shots_per_circuit =
                               (IF call.shots \div n >= 1 THEN call.shots \div n ELSE 1)
                    /\ (n > 0 /\ n <= e.requested) =>
                           n * e.shots_per_circuit <= call.shots

C15_Witness ==
    /\ call.op = "pec" /\ ret.ok /\ Len(log) >= 2
    /\ \E i \in 1..Len(log[2].out) :
           /\ log[2].out[i].path = "combined"
           /\ log[2].out[i].sampled = 2
           /\ log[2].out[i].requested = 2
           /\ log[2].out[i].shots_per_circuit = 10

----------------------------------------------------------------------------
(* ReadoutError.__init__ run by several threads on one rem-table/ file *)

MaxThreads == 2

\* open(..., "w") has emptied the file and json.dump has not filled it yet
Truncated == -2

\* one constructor call in flight: where it is, its use_table, the job it ran
\* (0: none), the result it holds (0: none yet)
Thread(pc, use_table, job, result) ==
    [pc |-> pc, use_table |-> use_table, job |-> job, result |-> result]

InitRace ==
    /\ Init
    /\ flags = OnlyRem

\* a thread enters ReadoutError.__init__
RaceStart ==
    /\ Len(threads) < MaxThreads
    /\ \E use_table \in BOOLEAN :
           threads' = Append(threads, Thread("check", use_table, 0, 0))
    /\ UNCHANGED <<flags, pec_table, rem_table, hist, call, ret, log, heap, twin>>

\* if use_table and path.exists(...): taken without any lock
RaceCheck ==
    /\ \E i \in DOMAIN threads :
           /\ threads[i].pc = "check"
           /\ threads' = [threads EXCEPT
                  ![i].pc = IF threads[i].use_table /\ rem_table[OwnFile] # NoFile
                            THEN "load" ELSE "run"]
    /\ UNCHANGED <<flags, pec_table, rem_table, hist, call, ret, log, heap, twin>>

\* result = table.load(dims, backend, exp): json.load raises on a file that
\* is gone or still empty
RaceLoad ==
    /\ \E i \in DOMAIN threads :
           /\ threads[i].pc = "load"
           /\ threads' = [threads EXCEPT
                  ![i] = IF rem_table[OwnFile] \in {NoFile, Truncated}
                         THEN Thread("raised", TRUE, 0, 0)
                         ELSE Thread("done", TRUE, 0, TableLoad(rem_table, <<Rows, Cols>>))]
    /\ UNCHANGED <<flags, pec_table, rem_table, hist, call, ret, log, heap, twin>>

\* result = exp.run(backend): the calibration experiment on the device
RaceRun ==
    /\ \E i \in DOMAIN threads :
           /\ threads[i].pc = "run"
           /\ threads' = [threads EXCEPT ![i].pc = "open", ![i].job = hist.runs + 1,
                                         ![i].result = hist.runs + 1]
           /\ hist' = [hist EXCEPT !.runs = @ + 1]
    /\ UNCHANGED <<flags, pec_table, rem_table, call, ret, log, heap, twin>>

\* REMTable.enter, with open(..., "w") as file
RaceOpen ==
    /\ \E i \in DOMAIN threads :
           /\ threads[i].pc = "open"
           /\ threads' = [threads EXCEPT ![i].pc = "dump"]
           /\ rem_table' = [rem_table EXCEPT ![OwnFile] = Truncated]
    /\ UNCHANGED <<flags, pec_table, hist, call, ret, log, heap, twin>>

\* REMTable.enter, json.dump((job.result(), job_id), file)
RaceDump ==
    /\ \E i \in DOMAIN threads :
           /\ threads[i].pc = "dump"
           /\ threads' = [threads EXCEPT ![i].pc = "done"]
           /\ rem_table' = Enter(rem_table, <<Rows, Cols>>, threads[i].job)
           /\ hist' = [hist EXCEPT !.writes = @ + 1]
    /\ UNCHANGED <<flags, pec_table, call, ret, log, heap, twin>>

NextRace == RaceStart \/ RaceCheck \/ RaceLoad \/ RaceRun \/ RaceOpen \/ RaceDump

SpecRace == InitRace /\ [][NextRace]_vars

\* the threads that ran the calibration experiment although they were asked
\* to use the table
Producers == {i \in DOMAIN threads : threads[i].use_table /\ threads[i].job # 0}

\* C16: when no calibration file is stored at the start, at most one of the
\* constructor calls that use the table runs the calibration experiment and
\* writes the file, and none of them fails; the others get the stored result.
C16_OneProducerPerKey ==
    ~hist.pre =>
        /\ Cardinality(Producers) <= 1
        /\ \A i \in DOMAIN threads : threads[i].use_table => threads[i].pc # "raised"

----------------------------------------------------------------------------
(* Claim about the cache keys, checked under SpecReps *)

\* C17: two different circuits on the same device never share a cache key,
\* so generate_pec_representations returns for each circuit either nothing or
\* the representation of that very circuit.
C17_KeysNeverCollide ==
    (call.op = "generate" /\ ret.ok) =>
        /\ \A i, j \in 1..Len(call.qcs) :
               call.qcs[i] # call.qcs[j] => KeyOf(call.qcs[i]) # KeyOf(call.qcs[j])
        /\ \A i \in 1..Len(call.qcs) :
               ret.val[i] \in {<<>>, Represent(call.qcs[i])}

----------------------------------------------------------------------------
(* Claim about equalize on sparse histograms, checked under SpecEqualize *)

\* the histograms of the last equalize call with at most 2^(K-1) entries
Sparse == {i \in 1..Len(call.counts) : Cardinality(DOMAIN call.counts[i]) <= Pow2(K - 1)}

\* C18: equalize returns a result exactly when every histogram of the list
\* has more than 2^(K-1) entries; one histogram with at most 2^(K-1) entries
\* makes the whole call raise, and no histogram is returned for any element.
C18_SparseHistogramFails ==
    call.op \in {"equalize", "equalize again"} =>
        /\ ret.ok <=> Sparse = {}
        /\ ret.ok => Len(ret.val) = Len(call.counts)
        /\ ~ret.ok => ret.val = <<>>

C18_Witness ==
    /\ call.op = "equalize" /\ ~ret.ok /\ ret.val = <<>>
    /\ Len(call.counts) = 2
    /\ Cardinality(Sparse) = 1
    /\ \E i \in Sparse : Cardinality(DOMAIN call.counts[i]) = Pow2(K - 1)

----------------------------------------------------------------------------
(* mitigate on two mitigators that differ in zero_noise_extrapolation only *)

\* ErrorMitigator.__init__ with the other value of zero_noise_extrapolation
OtherZne(f) == [f EXCEPT !.zne = ~f.zne]

\* mitigate(qcs, shots, counts) called on both mitigators with the same
\* arguments, from the same state, the libraries and the backend answering
\* the same way
TwinCall ==
    /\ call = NoCall
    /\ \E batch \in Batches, shots \in ShotsPool :
         \E ext \in Externals(flags, Len(batch), RunOutcomesFew) :
            \E e \in {Mitigate(flags, QcsOf(batch), shots, CountsOf(batch, shots),
                                ext, Persistent)},
               t \in {Mitigate(OtherZne(flags), QcsOf(batch), shots,
                                CountsOf(batch, shots), ext, Persistent)} :
                /\ call' = Call("mitigate", QcsOf(batch), shots, CountsOf(batch, shots),
                                TRUE, DefaultNumSamples)
                /\ ret' = Ret(e.ret, e.label)
                /\ log' = e.log
                /\ twin' = [ret |-> t.ret, label |-> t.label, log |-> t.log]
                /\ Leave(e.st, FALSE)
    /\ UNCHANGED <<flags, heap, threads>>

NextTwin == TwinCall

SpecTwin == Init /\ [][NextTwin]_vars

OnlyZne == [eq |-> FALSE, rem |-> FALSE, ibu |-> FALSE, zne |-> TRUE, pec |-> FALSE]

\* C19: two mitigators that differ only in the zero_noise_extrapolation flag
\* invoke the same stages on the same inputs and return the same histograms
\* and the same label; with only that flag set, mitigate returns the input
\* histograms under the raw label and runs no stage, zne included.
C19_ZneFlagIgnored ==
    call.op = "mitigate" =>
        /\ twin.ret = [ok |-> ret.ok, val |-> ret.val]
        /\ twin.label = ret.label
        /\ twin.log = log
        /\ \A i \in 1..Len(log) : log[i].stage \notin {"zne", "fit", "execute"}
        /\ (~flags.rem /\ ~flags.ibu /\ ~flags.pec) =>
               /\ ret.ok
               /\ ret.val = call.counts
               /\ ret.label.techniques = <<"raw">>
               /\ log = <<>>

C19_Witness ==
    /\ call.op = "mitigate" /\ flags = OnlyZne
    /\ call.counts # <<>>
    /\ ret.val = call.counts /\ twin.ret.val = call.counts
    /\ twin.label.techniques = <<"raw">>

====
